---------------------------- MODULE Spec2Model ----------------------------
(***************************************************************************)
(* The detection session lifecycle of detection/detection_engine.py: the   *)
(* process-wide registry active_detection_threads, the DetectionThread run *)
(* loop, and the registry operations start_detection, stop_detection,      *)
(* cleanup_inactive_threads and force_stop_all_detection, each run by      *)
(* concurrent request handlers one dictionary access at a time.            *)
(*                                                                         *)
(* Time.  Every step is instantaneous except three waits: Thread.join      *)
(* (bounded by its timeout), Event.wait in the run loop (bounded by the    *)
(* poll interval) and the body of a tick (provider calls and event         *)
(* writes).  Time passes only when no instantaneous step is pending.       *)
(* Spec abstracts the amount of time: Elapse lets one running timer reach  *)
(* its limit, and a tick may last for ever.  SpecTimed counts seconds with *)
(* Tick and bounds a tick by MaxTick seconds.                              *)
(***************************************************************************)
EXTENDS Integers, FiniteSets, Sequences, TLC

\* ------------------------------------------------------------- bounds
NumIds == 2
NumCallers == 2
NumThreads == 2
NumScanners == 1
MaxEvents == 1
MaxTick == 11
MaxDuration == 1
MaxCount == 3
MaxRows == 3
MaxNow == 2
MaxSeconds == 16

\* ---------------------------------------------------- program constants
JoinTimeout == 10
ForceJoinTimeout == 2
PollSeconds == 2
SecondsPerMinute == 60
focus_lost_threshold == 5
no_face_threshold == 10

Ids == 1..NumIds
Callers == 1..NumCallers
Threads == 1..NumThreads
\* The handlers that serve the administrative scans (cleanup, force stop).
Scanners == 1..NumScanners
\* The timed specification follows one interview, one request handler and
\* one session; with a single handler nothing registers the id again while
\* stop_detection runs, so its steps are those of HandlerStep.
TimedIds == {1}
TimedCallers == {1}
TimedThreads == {1}
\* The specification of the views follows one interview.
ViewIds == {1}
EventIds == {1, 2}
None == 0

VARIABLES
    status,      \* Interview.status of each interview row ("deleted": no row)
    active_detection_threads,  \* the registry: interview id -> thread, or None
    th,          \* the DetectionThread objects
    events,      \* EventLog rows of each interview (their number, saturating)
    call,        \* the engine call each request handler is running
    quiet,       \* nothing but the handler's own call has moved since it began
    since_flip,  \* seconds since the interview last left 'ongoing', saturating
    report,      \* a Report row: its event counts and its integrity_score
    rows,        \* the EventLog table, in order of insertion (primary key)
    now,         \* the clock that stamps the rows
    last,        \* the last call on the EventLog table and what it returned
    loop         \* the locals of one session's detection loop

vars == <<status, active_detection_threads, th, events, call, quiet, since_flip,
          report, rows, now, last, loop>>

\* The state of the detection engine and of its views.
Engine == <<status, active_detection_threads, th, events, call, quiet, since_flip>>

\* ------------------------------------------------------------- helpers
Min(a, b) == IF a < b THEN a ELSE b

\* A thread object: where it is in its life (pc), interview.id,
\* duration_minutes, _stop_event, the seconds since start_time (line 38) and
\* the seconds spent in the current wait or tick, both saturating.
NoThread == [pc |-> "unused", interview |-> None, duration_minutes |-> 0,
             stop_event |-> FALSE, elapsed |-> 0, timer |-> 0, caught |-> FALSE]

\* A request handler: the line it is at (pc), the function it runs (op),
\* its argument or current key interview_id, its local thread, its snapshot
\* list(active_detection_threads.items()), len(inactive_threads) and the
\* seconds spent in the current join, saturating; the view that called the
\* function and the interview the request names ("none": the function is
\* called on its own), and the status the view found that interview in
\* ("none" where it makes no difference to the view).
NoCall == [pc |-> "idle", op |-> "none", interview_id |-> None, thread |-> None,
           items |-> [i \in Ids |-> None], inactive |-> 0, timer |-> 0,
           view |-> "none", arg |-> None, was |-> "none"]

\* reports/models.py lines 18-25 and 8-9: the counts the score is made from.
CountFields == {"focus_lost_events", "suspicious_events", "no_face_events",
                "multiple_faces_events", "phone_detected_events",
                "notes_detected_events", "device_detected_events",
                "drowsiness_events", "audio_anomaly_events"}

\* A Report as the model declares it: every count 0, integrity_score 100.
NoReport == [f \in CountFields \cup {"integrity_score"} |->
                IF f = "integrity_score" THEN 100 ELSE 0]

duration_seconds(t) == th[t].duration_minutes * SecondsPerMinute

ElapsedCap(t) == duration_seconds(t) + MaxTick + PollSeconds + 1

FlipCap == MaxTick + PollSeconds + 1

\* threading.Thread.is_alive(): started and run() not yet finished.
is_alive(t) == th[t].pc \in {"top", "tick", "wait", "exit", "del"}

Ended(t) == th[t].pc \in {"dead", "crashed"}

\* del active_detection_threads[i]
Remove(reg, i) == [reg EXCEPT ![i] = None]

\* active_detection_threads[i] = t
Register(reg, i, t) == [reg EXCEPT ![i] = t]

\* Lines 212-216.
is_detection_active(i) ==
    active_detection_threads[i] # None /\ is_alive(active_detection_threads[i])

\* Lines 218-223.
get_active_detection_count ==
    Cardinality({i \in Ids : active_detection_threads[i] # None
                             /\ is_alive(active_detection_threads[i])})

\* -------------------------------------------------------------- Init
\* The process has just started: no session, no call; the interviews of I
\* are under way.
InitWith(I) ==
    /\ status = [i \in Ids |-> IF i \in I THEN "ongoing" ELSE "completed"]
    /\ active_detection_threads = [i \in Ids |-> None]
    /\ th = [t \in Threads |-> NoThread]
    /\ events = [i \in Ids |-> 0]
    /\ call = [c \in Callers |-> NoCall]
    /\ quiet = [c \in Callers |-> FALSE]
    /\ since_flip = [i \in Ids |-> 0]

\* No report has been made.
NoReports == report = NoReport

NoAnswer == [op |-> "none", interview |-> None, ret |-> None]

\* The EventLog table is empty and nothing has been asked of it.
NoRows == rows = <<>> /\ now = 1 /\ last = NoAnswer

\* No run of readings: none under way, none just closed.
NoRun == [first |-> None, latest |-> None, emitted |-> 0]

\* detection_engine.py lines 38-45: the loop before its first tick. Time is
\* counted in tenths of a second and starts at 1.
LoopStarts ==
    loop = [pc |-> "detect", current_time |-> 1,
            focus_lost_start |-> None, no_face_start |-> None,
            focus_maintained |-> TRUE, face_count |-> 1, objects |-> <<>>,
            out |-> <<>>, run |-> NoRun, closed |-> NoRun, faceless |-> None,
            raised |-> "none", refused |-> [focus_loss |-> None, no_face |-> None]]

\* What the steps of the detection engine and of its views leave alone.
Aside == UNCHANGED <<report, rows, now, last, loop>>

\* Nothing but the engine has acted.
Rest == NoReports /\ NoRows /\ LoopStarts

Init == InitWith(Ids) /\ Rest

InitTimed == InitWith(TimedIds) /\ Rest

InitViews == InitWith(ViewIds) /\ Rest

\* A cleanup stays undisturbed while every step since it began is its own.
Undisturbed(c) ==
    /\ quiet' = [d \in Callers |->
                   d = c /\ call'[c].op = "cleanup" /\ (call[c].pc = "idle" \/ quiet[c])]
    /\ Aside

Disturbed == quiet' = [d \in Callers |-> FALSE] /\ Aside

\* ------------------------------------------------- DetectionThread.run
RunFrame == UNCHANGED <<status, call, since_flip>>

\* Line 47: the loop condition, not self._stop_event.is_set().
StopSeen(t) == th[t].stop_event

\* A loop whose except clause of lines 54-56 does not break: only a status
\* read as other than 'ongoing' stops it.
RefreshErrorIgnored(t) == status[th[t].interview] = "completed"

\* The loop without its status check.
StatusIgnored(t) == FALSE

\* Lines 49-56: refresh_from_db raises when the row is gone; any status but
\* 'ongoing' breaks the loop.
StatusSaysStop(t) == status[th[t].interview] # "ongoing"

\* Line 50: refresh_from_db raises when the row is gone.
RefreshRaises(t) == status[th[t].interview] = "deleted"

\* The loop without its duration check.
DurationIgnored(t) == FALSE

\* Lines 59-62: elapsed > duration_seconds breaks the loop.
DurationOver(t) == th[t].elapsed > duration_seconds(t)

\* Lines 47-62: the head of one loop iteration.  Its three reads change
\* nothing, so they are taken in one step.
LoopHead(t) ==
    /\ th[t].pc = "top"
    /\ th' = [th EXCEPT ![t].pc =
                IF StopSeen(t) \/ StatusSaysStop(t) \/ DurationOver(t)
                  THEN "exit" ELSE "tick",
                        ![t].timer = 0,
                        ![t].caught = ~StopSeen(t) /\ RefreshRaises(t)]
    /\ UNCHANGED <<active_detection_threads, events>>
    /\ RunFrame

\* A tick whose error ends the session.
TickDies(t, raised) == IF raised THEN "crashed" ELSE "wait"

\* Lines 64 and 110-111: an error of a detection step is caught by the
\* tick's except clause, and the loop goes on to its wait.
AfterTick(t, raised) == "wait"

\* Lines 64-111: one tick.  The provider readings and the debounce decide
\* how many events the tick writes; here a tick writes n events, n chosen
\* freely, and then one of its detection steps raises or none does.  What
\* the tick leaves behind is the same in both cases; R says whether the
\* specification records the raise (BOOLEAN) or does not ({FALSE}).
DetectionTick(t, R) ==
    /\ th[t].pc = "tick"
    /\ \E n \in 0..MaxEvents :
          events' = [events EXCEPT ![th[t].interview] = Min(@ + n, MaxEvents)]
    /\ \E raised \in R :
          th' = [th EXCEPT ![t].pc = AfterTick(t, raised), ![t].timer = 0,
                           ![t].caught = raised]
    /\ UNCHANGED active_detection_threads
    /\ RunFrame

\* Lines 113-115: self._stop_event.wait(timeout=2) returns True as soon as
\* the event is set, False when the two seconds are over.
WaitOver(t) == th[t].timer >= PollSeconds

\* A wait that sleeps its two seconds out.
WaitSleptOut(t) == WaitOver(t)

WaitReturns(t) == th[t].stop_event \/ WaitOver(t)

InterruptibleWait(t) ==
    /\ th[t].pc = "wait"
    /\ WaitReturns(t)
    /\ th' = [th EXCEPT ![t].pc = IF th[t].stop_event THEN "exit" ELSE "top",
                        ![t].timer = 0, ![t].caught = FALSE]
    /\ UNCHANGED <<active_detection_threads, events>>
    /\ RunFrame

\* run() is over: nobody reads the thread's event or clock any more.
EndAs(t, how) ==
    [th EXCEPT ![t].pc = how, ![t].stop_event = FALSE, ![t].elapsed = 0,
               ![t].timer = 0, ![t].caught = FALSE]

\* Lines 117-119: the membership test of the clean-up.
ExitTest(t) ==
    /\ th[t].pc = "exit"
    /\ th' = IF active_detection_threads[th[t].interview] # None
               THEN [th EXCEPT ![t].pc = "del"]
               ELSE EndAs(t, "dead")
    /\ UNCHANGED <<active_detection_threads, events>>
    /\ RunFrame

\* Line 120: del active_detection_threads[self.interview.id]; a KeyError
\* when the key went away since the test is caught by nobody.
ExitDelete(t) ==
    /\ th[t].pc = "del"
    /\ IF active_detection_threads[th[t].interview] # None
          THEN /\ active_detection_threads' =
                     Remove(active_detection_threads, th[t].interview)
               /\ th' = EndAs(t, "dead")
          ELSE /\ UNCHANGED active_detection_threads
               /\ th' = EndAs(t, "crashed")
    /\ UNCHANGED events
    /\ RunFrame

\* run() has no try/finally: an error raised outside its two try blocks
\* (the print calls of lines 36, 52, 55, 61, 111 and 117, the last two of
\* them inside and after the except handlers) ends the thread before the
\* clean-up of lines 119-120.
RunRaises(t) ==
    /\ th[t].pc \in {"top", "tick", "exit"}
    /\ th' = EndAs(t, "crashed")
    /\ UNCHANGED <<active_detection_threads, events>>
    /\ RunFrame

ThreadStep(t, R) ==
    \/ LoopHead(t) /\ Disturbed
    \/ DetectionTick(t, R) /\ Disturbed
    \/ InterruptibleWait(t) /\ Disturbed
    \/ ExitTest(t) /\ Disturbed
    \/ ExitDelete(t) /\ Disturbed
    \/ RunRaises(t) /\ Disturbed

\* ------------------------------------------------------ request handlers
\* The call goes on at another line.
Goto(c, where) == [call EXCEPT ![c].pc = where]

\* The call raises: the exception reaches the request handler.
Raise(c, what) == [call EXCEPT ![c].pc = what]

Raised(c) == call[c].pc \in {"KeyError", "RuntimeError"}

\* The request is answered: the handler is free again.
ViewReturns(c) == [call EXCEPT ![c] = NoCall]

\* The call is over: its locals are gone, and the view that made it goes on
\* after it.
Return(c) ==
    IF call[c].view = "none" THEN ViewReturns(c)
    ELSE [call EXCEPT ![c] = [NoCall EXCEPT !.pc = "back", !.op = call[c].op,
                                            !.view = call[c].view,
                                            !.arg = call[c].arg,
                                            !.was = call[c].was]]

\* views.py: every caller of the engine catches what it raises
\* (except Exception) and answers the request.
HandlerCatches(c) ==
    /\ Raised(c)
    /\ call' = ViewReturns(c)
    /\ UNCHANGED <<status, active_detection_threads, th, events, since_flip>>

Free(c) == call[c].pc = "idle"

\* Of the thread objects P, one is left for every start_detection under way.
Unused(P) == {t \in P : th[t].pc = "unused"}

StartViews == {"start_interview", "run_detection", "restart_detection"}

StartsUnderWay ==
    {c \in Callers :
        \/ call[c].op = "start" /\ call[c].pc \notin {"st_start", "back"} /\ ~Raised(c)
        \/ call[c].view \in StartViews /\ call[c].op # "start" /\ ~Raised(c)}

\* The thread object DetectionThread(...) constructs: the next unused one.
Fresh(P) == CHOOSE t \in Unused(P) : \A u \in Unused(P) : t <= u

\* stop_detection without its first membership test.
StopBeginsBlind(c, op, i) ==
    [call EXCEPT ![c].op = op, ![c].interview_id = i, ![c].pc = "s_get"]

\* Line 183: if interview_id in active_detection_threads.
StopBegins(c, op, i) ==
    [call EXCEPT ![c].op = op, ![c].interview_id = i,
                 ![c].pc = IF active_detection_threads[i] # None
                             THEN "s_get" ELSE "s_in3"]

\* start_detection(interview, duration_minutes), lines 164-169: it begins
\* with stop_detection(interview.id).
CallStart(c, i, P) ==
    /\ Free(c)
    /\ status[i] # "deleted"
    /\ Cardinality(Unused(P)) > Cardinality(StartsUnderWay)
    /\ call' = StopBegins(c, "start", i)
    /\ UNCHANGED <<status, active_detection_threads, th, events, since_flip>>

\* stop_detection(interview_id), lines 179-183.
CallStop(c, i) ==
    /\ Free(c)
    /\ status[i] # "deleted"
    /\ call' = StopBegins(c, "stop", i)
    /\ UNCHANGED <<status, active_detection_threads, th, events, since_flip>>

\* thread.stop(), lines 160-162: self._stop_event.set().
stop(t) == IF Ended(t) THEN th ELSE [th EXCEPT ![t].stop_event = TRUE]

\* Lines 184-188: thread = active_detection_threads[interview_id] (a
\* KeyError when the key went away since line 183), then thread.stop().
StopSignal(c) ==
    /\ call[c].pc = "s_get"
    /\ IF active_detection_threads[call[c].interview_id] # None
          THEN /\ call' = [call EXCEPT
                             ![c].thread = active_detection_threads[call[c].interview_id],
                             ![c].pc = "s_join", ![c].timer = 0]
               /\ th' = stop(active_detection_threads[call[c].interview_id])
          ELSE /\ call' = Raise(c, "KeyError")
               /\ UNCHANGED th
    /\ UNCHANGED <<status, active_detection_threads, events, since_flip>>

\* The timeout of the join the handler is in.
JoinLimit(c) == IF call[c].pc = "fs_join" THEN ForceJoinTimeout ELSE JoinTimeout

JoinTimedOut(c) == call[c].timer >= JoinLimit(c)

\* Thread.join(timeout) comes back when the thread is not alive (raising
\* RuntimeError for a thread never started) or when the timeout is over.
JoinReturns(c) == ~is_alive(call[c].thread) \/ JoinTimedOut(c)

\* Lines 191-198: thread.join(timeout=10), then the is_alive() test.
StopJoin(c) ==
    /\ call[c].pc = "s_join"
    /\ JoinReturns(c)
    /\ call' = IF th[call[c].thread].pc = "created"
                 THEN Raise(c, "RuntimeError")
                 ELSE Goto(c, IF is_alive(call[c].thread) THEN "s_del1" ELSE "s_in2")
    /\ UNCHANGED <<status, active_detection_threads, th, events, since_flip>>

\* A del of the handler's key at line pc, going on as next: a KeyError when
\* the key is not there.
DeleteKey(c, pc, next) ==
    /\ call[c].pc = pc
    /\ IF active_detection_threads[call[c].interview_id] # None
         THEN /\ active_detection_threads' =
                    Remove(active_detection_threads, call[c].interview_id)
              /\ call' = next
         ELSE /\ UNCHANGED active_detection_threads
              /\ call' = Raise(c, "KeyError")
    /\ UNCHANGED <<status, th, events, since_flip>>

\* A membership test of the handler's key at line pc.
TestKey(c, pc, present, absent) ==
    /\ call[c].pc = pc
    /\ call' = IF active_detection_threads[call[c].interview_id] # None
                 THEN present ELSE absent
    /\ UNCHANGED <<status, active_detection_threads, th, events, since_flip>>

\* stop_detection returns: to its caller start_detection (line 171), or to
\* the request handler.
StopReturn(c) == IF call[c].op = "start" THEN Goto(c, "st_reg") ELSE Return(c)

\* Line 196: the forced del after a join that timed out.
StopForceDelete(c) == DeleteKey(c, "s_del1", Goto(c, "s_in2"))

\* Line 201: if interview_id in active_detection_threads.
StopTest2(c) == TestKey(c, "s_in2", Goto(c, "s_del2"), Goto(c, "s_in3"))

\* Line 202: del active_detection_threads[interview_id].
StopDelete2(c) == DeleteKey(c, "s_del2", Goto(c, "s_in3"))

\* stop_detection without its last removal.
StopTest3Skipped(c) == TestKey(c, "s_in3", StopReturn(c), StopReturn(c))

\* Line 208: the last membership test.
StopTest3(c) == TestKey(c, "s_in3", Goto(c, "s_del3"), StopReturn(c))

\* Lines 209-210: the last del.
StopDelete3(c) == DeleteKey(c, "s_del3", StopReturn(c))

\* Lines 172-173: DetectionThread(interview, duration_minutes) and
\* active_detection_threads[interview.id] = detection_thread.
StartRegister(c, P) ==
    /\ call[c].pc = "st_reg"
    /\ Unused(P) # {}
    /\ \E d \in 1..MaxDuration :
          th' = [th EXCEPT ![Fresh(P)] = [NoThread EXCEPT !.pc = "created",
                                             !.interview = call[c].interview_id,
                                             !.duration_minutes = d]]
    /\ active_detection_threads' =
          Register(active_detection_threads, call[c].interview_id, Fresh(P))
    /\ call' = [call EXCEPT ![c].thread = Fresh(P), ![c].pc = "st_start"]
    /\ UNCHANGED <<status, events, since_flip>>

\* Lines 174-177: detection_thread.start(); run() begins at line 36.
StartThread(c) ==
    /\ call[c].pc = "st_start"
    /\ th' = [th EXCEPT ![call[c].thread].pc = "top"]
    /\ call' = Return(c)
    /\ UNCHANGED <<status, active_detection_threads, events, since_flip>>

\* The next key of a snapshot after key i, in key order; None at the end.
NextItem(snap, i) ==
    IF \E j \in Ids : j > i /\ snap[j] # None
      THEN CHOOSE j \in Ids : /\ j > i /\ snap[j] # None
                              /\ \A k \in Ids : (k > i /\ snap[k] # None) => j <= k
      ELSE None

\* The for loop takes the item after the current one, or is over.
Advance(c, body, after) ==
    IF NextItem(call[c].items, call[c].interview_id) = None
      THEN Goto(c, after)
      ELSE [call EXCEPT
              ![c].pc = body,
              ![c].interview_id = NextItem(call[c].items, call[c].interview_id),
              ![c].thread = call[c].items[NextItem(call[c].items, call[c].interview_id)]]

\* The for loop begins: list(active_detection_threads.items()) is taken in
\* one step and its first item becomes the current one.
BeginScan(c, op, body, after) ==
    IF NextItem(active_detection_threads, None) = None
      THEN [call EXCEPT ![c].op = op, ![c].items = active_detection_threads,
                        ![c].pc = after]
      ELSE [call EXCEPT
              ![c].op = op, ![c].items = active_detection_threads,
              ![c].pc = body,
              ![c].interview_id = NextItem(active_detection_threads, None),
              ![c].thread = active_detection_threads[
                                NextItem(active_detection_threads, None)]]

\* cleanup_inactive_threads(), lines 260-264.
CallCleanup(c) ==
    /\ Free(c)
    /\ c \in Scanners
    /\ call' = BeginScan(c, "cleanup", "cl_alive", "cl_ret")
    /\ UNCHANGED <<status, active_detection_threads, th, events, since_flip>>

\* The scan without its is_alive() test: every entry is removed.
CleanupTestBlind(c) ==
    /\ call[c].pc = "cl_alive"
    /\ call' = Goto(c, "cl_del")
    /\ UNCHANGED <<status, active_detection_threads, th, events, since_flip>>

\* Line 265: if not thread.is_alive().
CleanupTest(c) ==
    /\ call[c].pc = "cl_alive"
    /\ call' = IF is_alive(call[c].thread)
                 THEN Advance(c, "cl_alive", "cl_ret")
                 ELSE Goto(c, "cl_del")
    /\ UNCHANGED <<status, active_detection_threads, th, events, since_flip>>

\* Lines 266-268: inactive_threads.append(interview_id) and the del.
CleanupDelete(c) ==
    /\ call[c].pc = "cl_del"
    /\ IF active_detection_threads[call[c].interview_id] # None
         THEN /\ active_detection_threads' =
                    Remove(active_detection_threads, call[c].interview_id)
              /\ call' = [Advance(c, "cl_alive", "cl_ret") EXCEPT
                            ![c].inactive = call[c].inactive + 1]
         ELSE /\ UNCHANGED active_detection_threads
              /\ call' = Raise(c, "KeyError")
    /\ UNCHANGED <<status, th, events, since_flip>>

\* Lines 270-271: return len(inactive_threads).
CleanupReturn(c) ==
    /\ call[c].pc = "cl_ret"
    /\ call' = Return(c)
    /\ UNCHANGED <<status, active_detection_threads, th, events, since_flip>>

\* force_stop_all_detection(), lines 300-304.
CallForceStop(c) ==
    /\ Free(c)
    /\ c \in Scanners
    /\ call' = BeginScan(c, "force", "fs_stop", "fs_ret")
    /\ UNCHANGED <<status, active_detection_threads, th, events, since_flip>>

\* Lines 305-306: thread.stop().
ForceSignal(c) ==
    /\ call[c].pc = "fs_stop"
    /\ th' = stop(call[c].thread)
    /\ call' = [call EXCEPT ![c].pc = "fs_join", ![c].timer = 0]
    /\ UNCHANGED <<status, active_detection_threads, events, since_flip>>

\* Line 307: thread.join(timeout=2); its outcome is not looked at.
ForceJoin(c) ==
    /\ call[c].pc = "fs_join"
    /\ JoinReturns(c)
    /\ call' = IF th[call[c].thread].pc = "created"
                 THEN Raise(c, "RuntimeError")
                 ELSE Goto(c, "fs_in")
    /\ UNCHANGED <<status, active_detection_threads, th, events, since_flip>>

\* Line 308: if interview_id in active_detection_threads.
ForceTest(c) == TestKey(c, "fs_in", Goto(c, "fs_del"), Advance(c, "fs_stop", "fs_ret"))

\* Line 309: the del, then the next item.
ForceDelete(c) == DeleteKey(c, "fs_del", Advance(c, "fs_stop", "fs_ret"))

\* Line 311: the loop is over and the function returns.
ForceReturn(c) ==
    /\ call[c].pc = "fs_ret"
    /\ call' = Return(c)
    /\ UNCHANGED <<status, active_detection_threads, th, events, since_flip>>

\* A handler calls one of the four functions on its own.
EntryStep(c, I, P) ==
    \/ \E i \in I : CallStart(c, i, P) /\ Undisturbed(c)
    \/ \E i \in I : CallStop(c, i) /\ Undisturbed(c)
    \/ CallCleanup(c) /\ Undisturbed(c)
    \/ CallForceStop(c) /\ Undisturbed(c)

\* The steps inside the functions.
EngineStep(c, P) ==
    \/ StopSignal(c) /\ Undisturbed(c)
    \/ StopJoin(c) /\ Undisturbed(c)
    \/ StopForceDelete(c) /\ Undisturbed(c)
    \/ StopTest2(c) /\ Undisturbed(c)
    \/ StopDelete2(c) /\ Undisturbed(c)
    \/ StopTest3(c) /\ Undisturbed(c)
    \/ StartRegister(c, P) /\ Undisturbed(c)
    \/ StartThread(c) /\ Undisturbed(c)
    \/ CleanupTest(c) /\ Undisturbed(c)
    \/ CleanupDelete(c) /\ Undisturbed(c)
    \/ CleanupReturn(c) /\ Undisturbed(c)
    \/ ForceSignal(c) /\ Undisturbed(c)
    \/ ForceJoin(c) /\ Undisturbed(c)
    \/ ForceTest(c) /\ Undisturbed(c)
    \/ ForceDelete(c) /\ Undisturbed(c)
    \/ ForceReturn(c) /\ Undisturbed(c)
    \/ HandlerCatches(c) /\ Undisturbed(c)

\* The steps a handler takes whatever the others do.
HandlerStep(c, I, P) == EntryStep(c, I, P) \/ EngineStep(c, P)

\* Line 209 runs only when the key came back since the tests of lines 183
\* and 201: another handler registered it.
RacedStep(c) == StopDelete3(c) /\ Undisturbed(c)

CallerStep(c, I, P) == HandlerStep(c, I, P) \/ RacedStep(c)

\* ------------------------------------------------------------ the views
\* interviews/views.py and detection/views.py: the requests that call the
\* functions.  get_object_or_404 answers 404 when the row is gone.
RowExists(i) == status[i] # "deleted"

\* interview.save() with the new status.
Saved(i, s) == [status EXCEPT ![i] = s]

\* The view v of handler c is back from the function op.
BackFrom(c, v, op) == call[c].pc = "back" /\ call[c].view = v /\ call[c].op = op

\* The request for view v and interview i is taken up.
Takes(c, v, i, op) ==
    [call EXCEPT ![c] = [NoCall EXCEPT !.pc = "back", !.op = op, !.view = v, !.arg = i]]

ViewFrame == UNCHANGED <<active_detection_threads, th, events, since_flip>>

\* start_interview, lines 30-44: the status is saved as 'ongoing'.
StartInterview(c, i, P) ==
    /\ Free(c) /\ RowExists(i)
    /\ Cardinality(Unused(P)) > Cardinality(StartsUnderWay)
    /\ status' = Saved(i, "ongoing")
    /\ call' = [Takes(c, "start_interview", i, "saved") EXCEPT ![c].was = "ongoing"]
    /\ ViewFrame

\* start_interview, lines 49-51: start_detection(interview, duration).
StartInterviewCalls(c) ==
    /\ BackFrom(c, "start_interview", "saved")
    /\ call' = StopBegins(c, "start", call[c].arg)
    /\ UNCHANGED status
    /\ ViewFrame

\* run_detection, lines 41-57: the row is read once, and a status other
\* than 'ongoing' is answered with an error.
RunDetection(c, i, P) ==
    /\ Free(c) /\ RowExists(i)
    /\ Cardinality(Unused(P)) > Cardinality(StartsUnderWay)
    /\ call' = IF status[i] = "ongoing"
                 THEN [Takes(c, "run_detection", i, "checked") EXCEPT
                         ![c].was = status[i]]
                 ELSE call
    /\ UNCHANGED status
    /\ ViewFrame

\* run_detection, lines 59-61.
RunDetectionCalls(c) ==
    /\ BackFrom(c, "run_detection", "checked")
    /\ call' = StopBegins(c, "start", call[c].arg)
    /\ UNCHANGED status
    /\ ViewFrame

\* restart_detection, lines 401-408: stop_detection(interview.id), whatever
\* the status.
RestartDetection(c, i, P) ==
    /\ Free(c) /\ RowExists(i)
    /\ Cardinality(Unused(P)) > Cardinality(StartsUnderWay)
    /\ call' = [StopBegins(c, "stop", i) EXCEPT ![c].view = "restart_detection",
                                                 ![c].arg = i,
                                                 ![c].was = status[i]]
    /\ UNCHANGED status
    /\ ViewFrame

\* restart_detection, lines 410-416: after the sleep, start_detection.
RestartDetectionCalls(c) ==
    /\ BackFrom(c, "restart_detection", "stop")
    /\ call' = StopBegins(c, "start", call[c].arg)
    /\ UNCHANGED status
    /\ ViewFrame

\* detection/views.py stop_detection_view (81-88) and interviews/views.py
\* stop_detection_view (374-386).
StopDetectionView(c, i) ==
    /\ Free(c) /\ RowExists(i)
    /\ call' = [StopBegins(c, "stop", i) EXCEPT ![c].view = "stop_detection_view",
                                                 ![c].arg = i]
    /\ UNCHANGED status
    /\ ViewFrame

\* end_interview, lines 66-81: the status is saved as 'completed'.
EndInterview(c, i) ==
    /\ Free(c) /\ RowExists(i)
    /\ status' = Saved(i, "completed")
    /\ call' = [Takes(c, "end_interview", i, "saved") EXCEPT ![c].was = status[i]]
    /\ ViewFrame

\* end_interview, line 84: stop_detection(interview.id).
EndInterviewStops(c) ==
    /\ BackFrom(c, "end_interview", "saved")
    /\ call' = StopBegins(c, "stop", call[c].arg)
    /\ UNCHANGED status
    /\ ViewFrame

\* end_interview, lines 89-91: still active after the stop, the view calls
\* cleanup_inactive_threads().
EndInterviewCleans(c) ==
    /\ BackFrom(c, "end_interview", "stop")
    /\ call' = IF is_detection_active(call[c].arg)
                 THEN BeginScan(c, "cleanup", "cl_alive", "cl_ret")
                 ELSE ViewReturns(c)
    /\ UNCHANGED status
    /\ ViewFrame

\* end_interview, lines 93-95: still active after the cleanup, the view
\* calls force_stop_all_detection().
EndInterviewForces(c) ==
    /\ BackFrom(c, "end_interview", "cleanup")
    /\ call' = IF is_detection_active(call[c].arg)
                 THEN BeginScan(c, "force", "fs_stop", "fs_ret")
                 ELSE ViewReturns(c)
    /\ UNCHANGED status
    /\ ViewFrame

\* delete_interview, lines 436-443: stop_detection(interview.id).
DeleteInterview(c, i) ==
    /\ Free(c) /\ RowExists(i)
    /\ call' = [StopBegins(c, "stop", i) EXCEPT ![c].view = "delete_interview",
                                                 ![c].arg = i]
    /\ UNCHANGED status
    /\ ViewFrame

\* delete_interview, line 444: interview.delete().
DeleteInterviewDeletes(c) ==
    /\ BackFrom(c, "delete_interview", "stop")
    /\ status' = Saved(call[c].arg, "deleted")
    /\ call' = ViewReturns(c)
    /\ ViewFrame

\* emergency_stop_all, lines 395-400: force_stop_all_detection().
EmergencyStopAll(c) ==
    /\ Free(c)
    /\ call' = [BeginScan(c, "force", "fs_stop", "fs_ret") EXCEPT
                  ![c].view = "emergency_stop_all"]
    /\ UNCHANGED status
    /\ ViewFrame

\* emergency_stop_all, lines 403-409: every ongoing interview is saved as
\* 'completed'.
EmergencyCompletes(c) ==
    /\ BackFrom(c, "emergency_stop_all", "force")
    /\ status' = [i \in Ids |-> IF status[i] = "ongoing" THEN "completed" ELSE status[i]]
    /\ call' = ViewReturns(c)
    /\ ViewFrame

\* The view has nothing left to do but answer.
Answers(c) ==
    \/ call[c].view \in StartViews /\ call[c].op = "start"
    \/ call[c].view = "stop_detection_view"
    \/ call[c].view = "end_interview" /\ call[c].op = "force"

ViewAnswers(c) ==
    /\ call[c].pc = "back" /\ Answers(c)
    /\ call' = ViewReturns(c)
    /\ UNCHANGED status
    /\ ViewFrame

ViewStep(c, I, P) ==
    \/ \E i \in I : StartInterview(c, i, P) /\ Undisturbed(c)
    \/ StartInterviewCalls(c) /\ Undisturbed(c)
    \/ \E i \in I : RunDetection(c, i, P) /\ Undisturbed(c)
    \/ RunDetectionCalls(c) /\ Undisturbed(c)
    \/ \E i \in I : RestartDetection(c, i, P) /\ Undisturbed(c)
    \/ RestartDetectionCalls(c) /\ Undisturbed(c)
    \/ \E i \in I : StopDetectionView(c, i) /\ Undisturbed(c)
    \/ \E i \in I : EndInterview(c, i) /\ Undisturbed(c)
    \/ EndInterviewStops(c) /\ Undisturbed(c)
    \/ EndInterviewCleans(c) /\ Undisturbed(c)
    \/ EndInterviewForces(c) /\ Undisturbed(c)
    \/ \E i \in I : DeleteInterview(c, i) /\ Undisturbed(c)
    \/ DeleteInterviewDeletes(c) /\ Undisturbed(c)
    \/ EmergencyStopAll(c) /\ Undisturbed(c)
    \/ EmergencyCompletes(c) /\ Undisturbed(c)
    \/ ViewAnswers(c) /\ Undisturbed(c)

\* ------------------------------------------------- the interview rows
\* interviews/views.py: end_interview (79-81) and emergency_stop_all
\* (407-409) save status 'completed'; start_interview (40-44) saves
\* 'ongoing'; delete_interview (444) deletes the row.
SaveStatus(i, s) ==
    /\ status[i] \notin {s, "deleted"}
    /\ status' = [status EXCEPT ![i] = s]
    /\ since_flip' = IF "ongoing" \in {s, status[i]}
                       THEN [since_flip EXCEPT ![i] = 0] ELSE since_flip
    /\ UNCHANGED <<active_detection_threads, th, events, call>>

EnvStep(I, S) == \E i \in I, s \in S : SaveStatus(i, s) /\ Disturbed

\* --------------------------------------------------------------- time
CallerUrgent(c) ==
    /\ call[c].pc # "idle"
    /\ call[c].pc \in {"s_join", "fs_join"} => JoinReturns(c)

TickOver(t) == th[t].timer >= MaxTick

ThreadUrgent(t) ==
    \/ th[t].pc \in {"top", "exit", "del"}
    \/ th[t].pc = "wait" /\ WaitReturns(t)
    \/ th[t].pc = "tick" /\ TickOver(t)

Urgent == (\E c \in Callers : CallerUrgent(c)) \/ (\E t \in Threads : ThreadUrgent(t))

\* Time of unknown length passes: one running timer reaches its limit.
ElapseJoin ==
    /\ ~Urgent
    /\ \E c \in Callers :
          /\ call[c].pc \in {"s_join", "fs_join"}
          /\ call' = [call EXCEPT ![c].timer = JoinLimit(c)]
    /\ UNCHANGED <<status, active_detection_threads, th, events, since_flip>>
    /\ Disturbed

ElapseWait ==
    /\ ~Urgent
    /\ \E t \in Threads :
          /\ th[t].pc = "wait"
          /\ th' = [th EXCEPT ![t].timer = PollSeconds]
    /\ UNCHANGED <<status, active_detection_threads, call, events, since_flip>>
    /\ Disturbed

\* The run loop reads its clock only after a wait that timed out (line 59),
\* so the time that takes it past its duration is the time that ends a wait.
ElapseDuration ==
    /\ ~Urgent
    /\ \E t \in Threads :
          /\ th[t].pc = "wait"
          /\ th' = [th EXCEPT ![t].timer = PollSeconds,
                              ![t].elapsed = duration_seconds(t) + 1]
    /\ UNCHANGED <<status, active_detection_threads, call, events, since_flip>>
    /\ Disturbed

Elapse == ElapseJoin \/ ElapseWait \/ ElapseDuration

\* One second passes.
Tick ==
    /\ ~Urgent
    /\ call' = [c \in Callers |->
                  IF call[c].pc \in {"s_join", "fs_join"}
                    THEN [call[c] EXCEPT !.timer = Min(@ + 1, JoinLimit(c) + 1)]
                    ELSE call[c]]
    /\ th' = [t \in Threads |->
                IF ~is_alive(t) THEN th[t]
                ELSE [th[t] EXCEPT
                        !.elapsed = Min(@ + 1, ElapsedCap(t)),
                        !.timer = IF th[t].pc = "wait" THEN Min(@ + 1, PollSeconds + 1)
                                  ELSE IF th[t].pc = "tick" THEN Min(@ + 1, MaxTick + 1)
                                  ELSE @]]
    /\ since_flip' = [i \in Ids |->
                        IF status[i] # "ongoing" THEN Min(since_flip[i] + 1, FlipCap)
                        ELSE since_flip[i]]
    /\ UNCHANGED <<status, active_detection_threads, events>>
    /\ Disturbed

\* ------------------------------------------------------------ reports
\* reports/models.py lines 40-53: the deduction of each count.
Weight(f) ==
    CASE f = "focus_lost_events" -> 2
      [] f = "suspicious_events" -> 5
      [] f = "no_face_events" -> 3
      [] f = "multiple_faces_events" -> 8
      [] f = "phone_detected_events" -> 10
      [] f = "notes_detected_events" -> 8
      [] f = "device_detected_events" -> 6
      [] f = "drowsiness_events" -> 3
      [] f = "audio_anomaly_events" -> 4

RECURSIVE SumOver(_, _)
SumOver(r, F) ==
    IF F = {} THEN 0
    ELSE LET f == CHOOSE g \in F : TRUE
         IN  r[f] * Weight(f) + SumOver(r, F \ {f})

\* Lines 37-53: deductions.
deductions(r) == SumOver(r, CountFields)

Max(a, b) == IF a > b THEN a ELSE b

\* The score without its floor.
UnclampedScore(r) == 100 - deductions(r)

\* Lines 31-57: max(0, base_score - deductions).
calculate_integrity_score(r) == Max(0, 100 - deductions(r))

\* report.calculate_integrity_score() (reports/views.py line 59) on a report
\* whose score has not been calculated.
CalculateIntegrityScore ==
    /\ report.integrity_score = NoReport.integrity_score
    /\ report' = [report EXCEPT !.integrity_score = calculate_integrity_score(report)]
    /\ UNCHANGED Engine
    /\ UNCHANGED <<rows, now, last, loop>>

\* ------------------------------------------------------ the event log
\* Confidence scores are counted in hundredths: One is the score 1.0.
One == 100

\* What a client may send as a confidence: text that is no number, 0.8, and
\* the number 250.
Text(s) == [numeric |-> FALSE, value |-> 0, text |-> s]
Number(n) == [numeric |-> TRUE, value |-> n, text |-> ""]
RawConfidences == {Text("abc"), Number(80), Number(25000)}

\* detection_engine.py lines 76-108: the ends of the random.uniform ranges.
TickConfidences == {60, 100}

\* test_system.py line 209: log_event(interview, 'test_event', 'Test event', 0.5).
DirectConfidences == {50}

\* float(x) of Python: the number, or ValueError for text that is no number.
IsNumber(x) == x.numeric

\* detection/views.py lines 157-162: the confidence log_event_api stores.
\* x / 100 is exact on the numbers of RawConfidences.
ApiConfidence(x) ==
    IF ~IsNumber(x) THEN 0
    ELSE IF 0 <= x.value /\ x.value <= One THEN x.value
    ELSE x.value \div 100

\* detection/views.py lines 329-332: the confidence manual_event_log stores.
ManualConfidence(x) == IF ~IsNumber(x) THEN 80 ELSE x.value

\* EventLog.objects.filter(interview=interview): no Meta.ordering, so the
\* rows come by primary key.
filter(i) == SelectSeq(rows, LAMBDA r : r.interview = i)

\* queryset.first(): the first row, by primary key on an unordered queryset.
first(q) == q[1]

\* detection_engine.py lines 225-242.
get_detection_summary(i) ==
    LET events_of == filter(i)
    IN  [total_events |-> Len(events_of),
         focus_loss |-> Len(SelectSeq(events_of, LAMBDA r : r.event_type = "focus_loss")),
         integrity_score |-> Max(0, 100 - Len(events_of) * 5),
         latest_event |-> IF Len(events_of) > 0 THEN first(events_of).timestamp
                          ELSE None]

\* EventLog.objects.create(...): timestamp is auto_now_add.
create(i, type, confidence) ==
    Append(rows, [interview |-> i, event_type |-> type,
                  confidence_score |-> confidence, timestamp |-> now])

\* The table has room for one more row.
Room == Len(rows) < MaxRows

\* A write made whatever is reported of it.
WriteUnreported(i, type, confidence, written) ==
    rows' = create(i, type, confidence)

\* detection_engine.py lines 244-257: log_event; the write succeeds or the
\* database refuses it.
log_event(i, type, confidence, written) ==
    rows' = IF written THEN create(i, type, confidence) ELSE rows

\* A direct call of log_event.
LogEvent(I) ==
    \E i \in I, confidence \in DirectConfidences, written \in BOOLEAN :
        /\ Room
        /\ log_event(i, "test_event", confidence, written)
        /\ last' = [op |-> "log_event", interview |-> i, ret |-> written]
        /\ UNCHANGED <<now, report, loop>>
        /\ UNCHANGED Engine

\* detection/views.py lines 136-179: log_event_api.
LogEventApi(I) ==
    \E i \in I, x \in RawConfidences, written \in BOOLEAN :
        /\ Room
        /\ IF RowExists(i)
              THEN /\ log_event(i, "focus_lost", ApiConfidence(x), written)
                   /\ last' = [op |-> "log_event_api", interview |-> i,
                               ret |-> IF written THEN 200 ELSE 500]
              ELSE /\ rows' = rows
                   /\ last' = [op |-> "log_event_api", interview |-> i, ret |-> 404]
        /\ UNCHANGED <<now, report, loop>>
        /\ UNCHANGED Engine

\* detection/views.py lines 313-370: manual_event_log, POST.
ManualEventLog(I) ==
    \E i \in I, x \in RawConfidences, written \in BOOLEAN :
        /\ Room
        /\ IF RowExists(i)
              THEN log_event(i, "focus_lost", ManualConfidence(x), written)
              ELSE rows' = rows
        /\ last' = [op |-> "manual_event_log", interview |-> i, ret |-> 302]
        /\ UNCHANGED <<now, report, loop>>
        /\ UNCHANGED Engine

\* detection_engine.py lines 147-158: _log_event, called from the tick loop;
\* a refused write is swallowed.
TickLogs(I) ==
    \E i \in I, confidence \in TickConfidences, written \in BOOLEAN :
        /\ Room
        /\ rows' = IF written THEN create(i, "focus_loss", confidence) ELSE rows
        /\ last' = [op |-> "_log_event", interview |-> i, ret |-> None]
        /\ UNCHANGED <<now, report, loop>>
        /\ UNCHANGED Engine

\* A call of get_detection_summary.
GetDetectionSummary(I) ==
    \E i \in I :
        /\ last' = [op |-> "get_detection_summary", interview |-> i,
                    ret |-> get_detection_summary(i)]
        /\ UNCHANGED <<rows, now, report, loop>>
        /\ UNCHANGED Engine

\* The clock moves on.
ClockTick ==
    /\ now < MaxNow
    /\ now' = now + 1
    /\ UNCHANGED <<rows, last, report, loop>>
    /\ UNCHANGED Engine

\* detection/models.py lines 6-15: the event types of EventLog.
EVENT_TYPE_CHOICES ==
    {"focus_lost", "no_face", "multiple_faces", "phone_detected", "notes_detected",
     "device_detected", "drowsiness", "audio_anomaly"}

\* reports/views.py lines 36 and 48: the type generate_report counts as
\* focus_lost_events.
CountedAsFocusLost == "focus_lost"

\* ---------------------------------------------------- the detection loop
\* time.time() counted in tenths of a second.
Tenths == 10

\* Line 114: the wait between two ticks, in tenths.
PollTenths == PollSeconds * Tenths

\* What a tick's own work (the status read, the providers, the writes) adds
\* to the wait before the next reading of the clock, in tenths.
BodyTenths == {0, 4, 5, 6}

\* _detect_faces, lines 126-134.
FaceCounts == {0, 1, 2}

\* _detect_objects, lines 136-141: nothing, or one of three.
ObjectLists == {<<>>, <<"phone">>, <<"notes">>, <<"device">>}

\* Line 102: f'{obj}_detected'.
DetectedName(obj) ==
    CASE obj = "phone" -> "phone_detected"
      [] obj = "notes" -> "notes_detected"
      [] obj = "device" -> "device_detected"

\* A timer that is due whenever it runs.
DueAtOnce(start, current_time, threshold) == start # None

\* Lines 70-79 and 83-97: a timer is due when it runs and is older than its
\* threshold.
Due(start, current_time, threshold) ==
    start # None /\ current_time - start > threshold * Tenths

\* A timer that a reading without violation leaves running.
TimerKept(start, current_time, violation, threshold) ==
    IF ~violation THEN start
    ELSE IF start = None THEN current_time
    ELSE IF Due(start, current_time, threshold) THEN None
    ELSE start

\* A timer that an emission leaves running.
TimerNotReset(start, current_time, violation, threshold) ==
    IF ~violation THEN None
    ELSE IF start = None THEN current_time
    ELSE start

\* Lines 70-79: the timer after a reading that is a violation or is not.
Timer(start, current_time, violation, threshold) ==
    IF ~violation THEN None
    ELSE IF start = None THEN current_time
    ELSE IF Due(start, current_time, threshold) THEN None
    ELSE start

\* Lines 70-77: what the focus step emits.
FocusEvents(l, focus_maintained) ==
    IF ~focus_maintained
       /\ Due(l.focus_lost_start, l.current_time, focus_lost_threshold)
    THEN <<"focus_loss">> ELSE <<>>

\* Lines 83-95: what the face step emits.
FaceEvents(l, face_count) ==
    IF face_count = 0 /\ Due(l.no_face_start, l.current_time, no_face_threshold)
    THEN <<"no_face">>
    ELSE IF face_count > 1 THEN <<"multiple_faces">> ELSE <<>>

\* No event for the objects.
ObjectsUnseen(objects) == <<>>

\* Lines 100-103: one event for each object of the list.
ObjectEvents(objects) == [k \in 1..Len(objects) |-> DetectedName(objects[k])]

\* Lines 106-108.
DrowsinessEvents(drowsy) == IF drowsy THEN <<"drowsiness">> ELSE <<>>

\* The run of not-focused readings the reading of this tick belongs to.
RunAfter(l, focus_maintained) ==
    IF focus_maintained THEN NoRun
    ELSE [first |-> IF l.run.first = None THEN l.current_time ELSE l.run.first,
          latest |-> l.current_time,
          emitted |-> l.run.emitted + Len(FocusEvents(l, focus_maintained))]

\* Lines 69, 82, 100 and 106: the detection steps of a tick, in their order.
StepNo(step) ==
    CASE step = "focus" -> 1
      [] step = "faces" -> 2
      [] step = "objects" -> 3
      [] step = "drowsiness" -> 4
      [] step = "none" -> 5

\* The provider of one step raises, or none does.
Raises == {"none", "focus", "faces", "objects", "drowsiness"}

\* Lines 64 and 110: the tick's try block runs its steps up to the one whose
\* provider raises.
Reached(raised, step) == StepNo(step) < StepNo(raised)

\* A try block that runs every step whatever was raised.
ReachedAnyway(raised, step) == TRUE

\* Lines 64-108: the events the tick hands to _log_event, in their order.
Attempts(l, focus_maintained, face_count, objects, drowsy, raised) ==
    (IF Reached(raised, "focus") THEN FocusEvents(l, focus_maintained) ELSE <<>>)
    \o (IF Reached(raised, "faces") THEN FaceEvents(l, face_count) ELSE <<>>)
    \o (IF Reached(raised, "objects") THEN ObjectEvents(objects) ELSE <<>>)
    \o (IF Reached(raised, "drowsiness") THEN DrowsinessEvents(drowsy) ELSE <<>>)

\* A refused write that ends the tick: the events after it are not tried.
LoggedUntilRefused(attempts, no) ==
    LET upto == IF no = {} THEN Len(attempts)
                ELSE CHOOSE k \in no : \A j \in no : k <= j
    IN  [k \in 1..upto |-> [event_type |-> attempts[k], written |-> k \notin no]]

\* Lines 147-158: _log_event; the write of the k-th event is refused by the
\* database for the k of no, and the refusal is swallowed.
Logged(attempts, no) ==
    [k \in 1..Len(attempts) |-> [event_type |-> attempts[k], written |-> k \notin no]]

\* The time of the tick if it has tried to write an event of type e and was
\* refused, None if the write was made, and what it was if the tick has
\* not tried.
RefusedAt(l, out, e) ==
    IF \E k \in 1..Len(out) : out[k].event_type = e /\ ~out[k].written
      THEN l.current_time
    ELSE IF \E k \in 1..Len(out) : out[k].event_type = e THEN None
    ELSE l.refused[e]

\* Lines 64-111: the locals after the work of one tick.
Work(l, focus_maintained, face_count, objects, drowsy, raised, no) ==
    LET out == Logged(Attempts(l, focus_maintained, face_count, objects, drowsy,
                               raised), no)
        focused == Reached(raised, "focus")
        faced == Reached(raised, "faces")
    IN  [l EXCEPT
          !.pc = "wait",
          !.focus_lost_start =
              IF focused
                THEN Timer(@, l.current_time, ~focus_maintained, focus_lost_threshold)
                ELSE @,
          !.no_face_start =
              IF faced THEN Timer(@, l.current_time, face_count = 0, no_face_threshold)
              ELSE @,
          !.focus_maintained = IF focused THEN focus_maintained ELSE @,
          !.face_count = IF faced THEN face_count ELSE @,
          !.objects = IF Reached(raised, "objects") THEN objects ELSE @,
          !.out = out,
          !.run = IF focused THEN RunAfter(l, focus_maintained) ELSE @,
          !.closed = IF focused /\ focus_maintained THEN l.run ELSE NoRun,
          !.faceless = IF ~faced THEN @
                       ELSE IF face_count # 0 THEN None
                       ELSE IF @ = None THEN l.current_time ELSE @,
          !.raised = raised,
          !.refused = [focus_loss |-> RefusedAt(l, out, "focus_loss"),
                       no_face |-> RefusedAt(l, out, "no_face")]]

\* The writes the database may refuse: any of them, or none when it is sound.
Refusals(attempts, sound) == IF sound THEN {{}} ELSE SUBSET (1..Len(attempts))

\* Lines 64-111: the work of one tick, on the readings of its providers; a
\* provider of R raises, and the database is sound or is not.
DetectionWork(R, sound) ==
    \E focus_maintained \in BOOLEAN, face_count \in FaceCounts,
       objects \in ObjectLists, drowsy \in BOOLEAN, raised \in R :
        \E no \in Refusals(Attempts(loop, focus_maintained, face_count,
                                     objects, drowsy, raised), sound) :
            /\ loop.pc = "detect"
            /\ loop' = Work(loop, focus_maintained, face_count, objects, drowsy,
                            raised, no)
            /\ UNCHANGED Engine
            /\ UNCHANGED <<report, rows, now, last>>

\* Lines 113-115 and 47-66: the wait runs out and the next tick reads the
\* clock; it has no readings yet and has emitted nothing. The tick's own
\* work has taken one of the times of B.
NextTick(B) ==
    \E body \in B :
        /\ loop.pc = "wait"
        /\ loop.current_time + PollTenths + body <= 1 + MaxSeconds * Tenths
        /\ loop' = [loop EXCEPT !.pc = "detect",
                                !.current_time = @ + PollTenths + body,
                                !.focus_maintained = TRUE,
                                !.face_count = 1,
                                !.objects = <<>>,
                                !.out = <<>>,
                                !.closed = NoRun,
                                !.raised = "none"]
        /\ UNCHANGED Engine
        /\ UNCHANGED <<report, rows, now, last>>

\* ------------------------------------------------------ specifications
Next ==
    \/ \E c \in Callers : CallerStep(c, Ids, Threads)
    \/ \E t \in Threads : ThreadStep(t, {FALSE})
    \/ EnvStep(Ids, {"completed", "ongoing"})
    \/ Elapse

Spec == Init /\ [][Next]_vars

NextTimed ==
    \/ \E c \in TimedCallers : HandlerStep(c, TimedIds, TimedThreads)
    \/ \E t \in Threads : ThreadStep(t, BOOLEAN)
    \/ EnvStep(TimedIds, {"completed", "ongoing", "deleted"})
    \/ Tick

SpecTimed == InitTimed /\ [][NextTimed]_vars

\* Reports of every combination of counts up to MaxCount are scored.
InitScore ==
    /\ InitWith(Ids)
    /\ report \in [focus_lost_events : 0..MaxCount,
                    suspicious_events : 0..MaxCount,
                    no_face_events : 0..MaxCount,
                    multiple_faces_events : 0..MaxCount,
                    phone_detected_events : 0..MaxCount,
                    notes_detected_events : 0..MaxCount,
                    device_detected_events : 0..MaxCount,
                    drowsiness_events : 0..MaxCount,
                    audio_anomaly_events : 0..MaxCount,
                    integrity_score : {NoReport.integrity_score}]
    /\ NoRows
    /\ LoopStarts

NextScore == CalculateIntegrityScore

SpecScore == InitScore /\ [][NextScore]_vars

\* Events are written and summarised.
NextEvents ==
    \/ LogEvent(EventIds)
    \/ LogEventApi(EventIds)
    \/ ManualEventLog(EventIds)
    \/ TickLogs(EventIds)
    \/ GetDetectionSummary(EventIds)
    \/ ClockTick

SpecEvents == Init /\ [][NextEvents]_vars

\* One session's loop ticks on.
NextLoop == DetectionWork({"none"}, TRUE) \/ NextTick(BodyTenths)

SpecLoop == Init /\ [][NextLoop]_vars

\* One session's loop ticks on, every two seconds, while its providers raise
\* and the database refuses writes.
NextFaults == DetectionWork(Raises, FALSE) \/ NextTick({0})

SpecFaults == Init /\ [][NextFaults]_vars

\* The requests arrive through the views, which alone change the status.
NextViews ==
    \/ \E c \in Callers : ViewStep(c, ViewIds, Threads)
    \/ \E c \in Callers : EngineStep(c, Threads)
    \/ \E c \in Callers : RacedStep(c)
    \/ \E t \in Threads : ThreadStep(t, {FALSE})
    \/ Elapse

SpecViews == InitViews /\ [][NextViews]_vars

\* One interview is ended while every interview may be started: the view
\* end_interview and the stop view for the interviews of I, start_interview
\* for any.
EndStep(c, I) ==
    \/ \E j \in Ids : StartInterview(c, j, Threads) /\ Undisturbed(c)
    \/ StartInterviewCalls(c) /\ Undisturbed(c)
    \/ \E i \in I : StopDetectionView(c, i) /\ Undisturbed(c)
    \/ \E i \in I : EndInterview(c, i) /\ Undisturbed(c)
    \/ EndInterviewStops(c) /\ Undisturbed(c)
    \/ EndInterviewCleans(c) /\ Undisturbed(c)
    \/ EndInterviewForces(c) /\ Undisturbed(c)
    \/ ViewAnswers(c) /\ Undisturbed(c)

NextEnds ==
    \/ \E c \in Callers : EndStep(c, ViewIds)
    \/ \E c \in Callers : EngineStep(c, Threads)
    \/ \E c \in Callers : RacedStep(c)
    \/ \E t \in Threads : ThreadStep(t, {FALSE})
    \/ Elapse

SpecEnds == Init /\ [][NextEnds]_vars

TypeOK ==
    /\ status \in [Ids -> {"ongoing", "completed", "deleted"}]
    /\ active_detection_threads \in [Ids -> Threads \cup {None}]
    /\ \A t \in Threads :
          th[t].pc \in {"unused", "created", "top", "tick", "wait", "exit", "del",
                        "dead", "crashed"}
    /\ \A i \in Ids : active_detection_threads[i] # None =>
          th[active_detection_threads[i]].interview = i
    /\ DOMAIN report = CountFields \cup {"integrity_score"}
    /\ \A f \in CountFields : report[f] \in Nat
    /\ Len(rows) <= MaxRows
    /\ \A k \in 1..Len(rows) : rows[k].interview \in Ids /\ rows[k].timestamp \in 1..now

\* ----------------------------------------------------------- properties
InStop(c) ==
    call[c].op \in {"stop", "start"} /\ call[c].pc \notin {"st_reg", "st_start", "back"}

\* The sessions of interview i whose thread is alive.
LiveThreads(i) == {t \in Threads : is_alive(t) /\ th[t].interview = i}

\* C1: for every interview id, under every interleaving of the registry
\* operations and the sessions' own exits, at most one DetectionThread of
\* that id is alive at any instant.
C1_AtMostOneLiveThread == \A i \in Ids : Cardinality(LiveThreads(i)) <= 1

\* stop_detection returns in this step, to the request handler or to
\* start_detection (line 171).
StopReturns(c) ==
    /\ InStop(c) /\ ~Raised(c)
    /\ call'[c].pc \in {"idle", "st_reg"}

\* C2: a call of stop_detection(id) waits no longer than the join timeout,
\* and in the state it returns in is_detection_active(id) is false, whether
\* or not the thread co-operated.
C2_StopLeavesInactive ==
    /\ [](\A c \in Callers : InStop(c) => call[c].timer <= JoinTimeout)
    /\ [][\A c \in Callers, i \in Ids :
            StopReturns(c) /\ call[c].interview_id = i => ~is_detection_active(i)']_vars

\* C2 witness: stop_detection waited out the whole join for a thread that
\* is still alive, removed its entry and is at its last test.
C2_Witness ==
    \E c \in Callers :
        /\ call[c].op = "stop" /\ call[c].pc = "s_in3"
        /\ call[c].timer = JoinTimeout
        /\ is_alive(call[c].thread)
        /\ active_detection_threads[call[c].interview_id] = None

\* A session that start_detection has started, that is in its loop and that
\* nobody has signalled to stop.
Running(t) == th[t].pc \in {"top", "tick", "wait"} /\ ~th[t].stop_event

\* C3: from the return of start_detection on, and for as long as the new
\* session runs unstopped, the registry maps its interview id to it.
C3_EntryKeptWhileRunning ==
    \A t \in Threads : Running(t) => active_detection_threads[th[t].interview] = t

\* C4: stop_detection always returns: no run of it ends by raising.
C4_StopAlwaysReturns == \A c \in Callers : InStop(c) => ~Raised(c)

\* C5: when force_stop_all_detection returns the registry is empty and
\* get_active_detection_count() is 0.
C5_ForceStopEmptiesRegistry ==
    \A c \in Callers : call[c].pc = "fs_ret" =>
        /\ \A i \in Ids : active_detection_threads[i] = None
        /\ get_active_detection_count = 0

\* The del of line 267 takes an entry out of the registry in this step.
CleanupRemoves(c) ==
    /\ call[c].pc = "cl_del"
    /\ call'[c].pc # "cl_del"
    /\ active_detection_threads' # active_detection_threads

\* C6: run concurrently with start_detection and stop_detection,
\* cleanup_inactive_threads raises no error and removes no entry of a
\* session that has not terminated.
C6_CleanupIsSafe ==
    /\ [](\A c \in Callers : call[c].op = "cleanup" => ~Raised(c))
    /\ [][\A c \in Callers :
            CleanupRemoves(c) =>
                Ended(active_detection_threads[call[c].interview_id])]_vars

\* cleanup_inactive_threads has run to its return with nothing else moving.
CleanupDone(c) == call[c].pc = "cl_ret" /\ quiet[c]

\* The entries of the snapshot whose thread is not alive.
NotAlive(snap) == {i \in Ids : snap[i] # None /\ ~is_alive(snap[i])}

\* C7: run with no concurrent operation, cleanup_inactive_threads removes
\* exactly the entries whose thread is not alive, leaves the entries whose
\* thread is alive as they were, and returns the number it removed.
C7_CleanupRemovesExactlyDead ==
    \A c \in Callers : CleanupDone(c) =>
        /\ \A i \in Ids :
              active_detection_threads[i] =
                  IF i \in NotAlive(call[c].items) THEN None ELSE call[c].items[i]
        /\ call[c].inactive = Cardinality(NotAlive(call[c].items))

\* C7 witness: the scan met one entry of an ended thread and one entry of a
\* live thread, removed the first and kept the second.
C7_Witness ==
    \E c \in Callers : \E i, j \in Ids :
        /\ CleanupDone(c)
        /\ call[c].inactive = 1
        /\ call[c].items[i] # None /\ Ended(call[c].items[i])
        /\ active_detection_threads[i] = None
        /\ call[c].items[j] # None /\ is_alive(call[c].items[j])
        /\ active_detection_threads[j] = call[c].items[j]

\* The session was running when its interview left 'ongoing'.
RanAtFlip(t) ==
    /\ is_alive(t)
    /\ status[th[t].interview] # "ongoing"
    /\ th[t].elapsed >= since_flip[th[t].interview]

\* C8: a session running when its interview leaves 'ongoing' is alive for at
\* most one tick and one wait after that, stop call or not; from then on
\* is_detection_active is false.
C8_StatusChangeStopsSession ==
    \A t \in Threads :
        RanAtFlip(t) => since_flip[th[t].interview] <= MaxTick + PollSeconds

\* C8 witness: a session nobody signalled leaves its loop a full tick and a
\* full wait after the status changed, its duration not over.
C8_Witness ==
    \E t \in Threads :
        /\ RanAtFlip(t)
        /\ th[t].pc = "exit" /\ ~th[t].stop_event /\ ~DurationOver(t)
        /\ since_flip[th[t].interview] = MaxTick + PollSeconds

\* C9: a session is alive for at most its duration, one tick and one wait,
\* and once it has left run() through lines 117-120 the registry holds no
\* entry for it.
C9_DurationEndsSession ==
    \A t \in Threads :
        /\ is_alive(t) => th[t].elapsed <= duration_seconds(t) + MaxTick + PollSeconds
        /\ th[t].pc = "dead" => active_detection_threads[th[t].interview] # t

\* C9 witness: a session nobody signalled, its interview ongoing, leaves its
\* loop a tick and a wait after its duration, still registered.
C9_Witness ==
    \E t \in Threads :
        /\ th[t].pc = "exit" /\ ~th[t].stop_event
        /\ status[th[t].interview] = "ongoing"
        /\ th[t].elapsed = duration_seconds(t) + MaxTick + PollSeconds
        /\ active_detection_threads[th[t].interview] = t

\* C10: the registry holds no entry of a session whose thread has ended,
\* whatever ended it.
C10_NoEntryOfEndedThread ==
    \A i \in Ids :
        active_detection_threads[i] # None => ~Ended(active_detection_threads[i])

\* Handler c takes a step of a stop_detection(i) that has found no entry
\* for i so far and finds none now: the call itself, or the test of line 208.
StopFindsNothing(c, i) ==
    /\ active_detection_threads[i] = None
    /\ \/ Free(c) /\ call'[c].op = "stop" /\ call'[c].interview_id = i
       \/ /\ call[c].op = "stop" /\ call[c].interview_id = i
          /\ call[c].thread = None /\ call[c].pc = "s_in3"
          /\ call'[c] # call[c]

TookOutOfOngoing(c, i) ==
    \/ /\ call[c].view = "end_interview" /\ call[c].arg = i
       /\ call[c].was = "ongoing"
       /\ status'[i] # "ongoing"
    \/ BackFrom(c, "delete_interview", "stop") /\ call[c].arg = i /\ status[i] = "ongoing"
    \/ BackFrom(c, "emergency_stop_all", "force") /\ status[i] = "ongoing"

\* C12: when end_interview, delete_interview or emergency_stop_all returns
\* after taking an interview out of 'ongoing', no session of that interview
\* is registered or active.
C12_LifecycleViewsStop ==
    [][\A c \in Callers, i \in Ids :
          TookOutOfOngoing(c, i) /\ call[c].pc # "idle" /\ call'[c].pc = "idle" =>
              /\ active_detection_threads'[i] = None
              /\ ~is_detection_active(i)']_vars

\* Handler c creates and registers a session in this step (lines 172-173).
Registers(c) == call[c].pc = "st_reg" /\ call'[c].pc = "st_start"

\* C13: a request to start detection for an interview that is not 'ongoing'
\* creates and registers no session, whichever view it comes through.
C13_StartNeedsOngoing ==
    [][\A c \in Callers : Registers(c) => call[c].was = "ongoing"]_vars

\* One more event of kind f.
OneMore(r, f) == [r EXCEPT ![f] = r[f] + 1]

AllZero(r) == \A f \in CountFields : r[f] = 0

\* C14: the integrity score calculated for a report lies in 0..100, is 100
\* when every event count is zero, and is not raised by one more event of any
\* kind, the other counts being the same.
C14_ScoreBoundedAndMonotone ==
    /\ [](AllZero(report) => report.integrity_score = 100)
    /\ [][report' # report =>
             /\ report'.integrity_score \in 0..100
             /\ \A f \in CountFields :
                   calculate_integrity_score(OneMore(report', f))
                       <= report'.integrity_score]_vars

\* A report whose deductions exceed 100 has been scored 0.
C14_Witness == report.integrity_score = 0 /\ deductions(report) > 100

\* The call made in this step is op, for interview i.
Called(op, i) ==
    /\ last'.op = op /\ last'.interview = i
    /\ last' # last \/ rows' # rows

\* The timestamp of the row of interview i inserted last, None without rows.
MostRecent(i) ==
    IF Len(filter(i)) = 0 THEN None ELSE filter(i)[Len(filter(i))].timestamp

\* C15: the latest_event of get_detection_summary is the timestamp of the
\* event of that interview inserted last, and None without events.
C15_LatestEventIsNewest ==
    [][\A i \in Ids : Called("get_detection_summary", i) =>
            last'.ret.latest_event = MostRecent(i)]_vars

\* C16: log_event returns True exactly when it appended one row of that
\* interview, and False, raising nothing, when the write failed; after True
\* the interview has one event more and the others have the events they had.
C16_LogEventReportsTheWrite ==
    [][\A i \in Ids : Called("log_event", i) =>
            /\ last'.ret \in BOOLEAN
            /\ last'.ret = TRUE =>
                  /\ \E r \in {rows'[Len(rows')]} :
                        rows' = Append(rows, r) /\ r.interview = i
                  /\ get_detection_summary(i)'.total_events
                        = get_detection_summary(i).total_events + 1
                  /\ \A j \in Ids \ {i} : filter(j)' = filter(j)
            /\ last'.ret = FALSE => rows' = rows]_vars

\* log_event has returned True for one interview while another has events.
C16_Witness ==
    /\ last.op = "log_event" /\ last.ret = TRUE
    /\ \E j \in Ids \ {last.interview} : Len(filter(j)) > 0
    /\ Len(filter(last.interview)) > 1

\* C17: every row of the event log has a confidence score between 0 and 1.
C17_ConfidenceInUnitRange ==
    \A k \in 1..Len(rows) :
        0 <= rows[k].confidence_score /\ rows[k].confidence_score <= One

\* The time from the first reading of a run to its latest one, in tenths.
RunLength(r) == r.latest - r.first

\* C18: a run of not-focused readings 4.9 seconds long that a focused reading
\* ends has emitted no focus event; one 5.1 seconds long has emitted exactly
\* one.
C18_FocusDebounce ==
    loop.closed.first # None =>
        /\ RunLength(loop.closed) = 49 => loop.closed.emitted = 0
        /\ RunLength(loop.closed) = 51 => loop.closed.emitted = 1

\* A run 5.1 seconds long has been ended by a focused reading.
C18_Witness ==
    /\ loop.closed.first # None /\ RunLength(loop.closed) = 51
    /\ loop.closed.emitted = 1 /\ loop.focus_maintained

\* C19: while focus stays lost, the k-th focus event of the run comes no
\* later than one poll interval after 5 * k seconds of loss.
C19_RefiresEveryThreshold ==
    \A k \in 1..MaxSeconds :
        /\ loop.run.first # None
        /\ RunLength(loop.run) >= (focus_lost_threshold * k + PollSeconds) * Tenths
        => loop.run.emitted >= k

\* How many times the tick has emitted an event of type e.
Emitted(e) == Len(SelectSeq(loop.out, LAMBDA x : x.event_type = e))

\* C20: a tick that reads more than one face emits exactly one
\* multiple_faces event, and a tick that detects an object emits exactly one
\* event of that object's type, whatever the earlier ticks have read.
C20_NoDebounceForFacesAndObjects ==
    loop.pc = "wait" =>
        /\ Reached(loop.raised, "faces") /\ loop.face_count > 1 =>
              Emitted("multiple_faces") = 1
        /\ Reached(loop.raised, "objects") =>
              \A k \in 1..Len(loop.objects) :
                  Emitted(DetectedName(loop.objects[k])) = 1

\* A tick has read two faces and a phone while the no-face timer ran.
C20_Witness ==
    /\ loop.pc = "wait" /\ loop.face_count = 2 /\ loop.objects = <<"phone">>
    /\ Emitted("multiple_faces") = 1 /\ Emitted("phone_detected") = 1
    /\ loop.current_time > 1

\* The step is the work of one tick.
Worked == loop.pc = "detect" /\ loop'.pc = "wait"

\* C21: a tick emits no_face only when it reads no face, the no-face timer
\* was started more than 10 seconds before and every reading since then was
\* of no face; a tick that reads one face or more clears the timer, and the
\* emission resets it.
C21_NoFaceDebounce ==
    [][Worked =>
         /\ Len(SelectSeq(loop'.out, LAMBDA x : x.event_type = "no_face")) >= 1 =>
               /\ Reached(loop'.raised, "faces") /\ loop'.face_count = 0
               /\ loop.no_face_start # None
               /\ loop.current_time - loop.no_face_start > no_face_threshold * Tenths
               /\ loop.faceless # None /\ loop.faceless <= loop.no_face_start
               /\ loop'.no_face_start = None
         /\ Reached(loop'.raised, "faces") /\ loop'.face_count >= 1 =>
               loop'.no_face_start = None]_vars

\* A tick has emitted no_face in a run of readings that began after a
\* reading of a face.
C21_Witness ==
    /\ loop.pc = "wait" /\ loop.face_count = 0
    /\ Len(SelectSeq(loop.out, LAMBDA x : x.event_type = "no_face")) = 1
    /\ loop.faceless # None /\ loop.faceless > 1
    /\ loop.no_face_start = None

\* C22: the event a tick emits for sustained focus loss has the type
\* focus_lost, a member of EVENT_TYPE_CHOICES and the type that
\* generate_report counts.
C22_FocusEventTypeIsCounted ==
    [][Worked /\ loop'.run.emitted > loop.run.emitted =>
         \E k \in 1..Len(loop'.out) :
             /\ loop'.out[k].event_type = CountedAsFocusLost
             /\ loop'.out[k].event_type \in EVENT_TYPE_CHOICES]_vars

\* C23: once its stop signal is set a session starts no new tick, and it
\* spends no time in the wait between ticks: it leaves the wait at once, for
\* its exit.
C23_StopInterruptsTheWait ==
    [][\A t \in Threads :
          th[t].stop_event /\ th[t].pc # "tick" =>
              /\ th'[t].pc # "tick"
              /\ th[t].pc = "wait" =>
                    /\ th'[t].pc \in {"wait", "exit"}
                    /\ th'[t].timer <= th[t].timer]_vars

\* A session signalled during its wait is at its exit while the join that
\* followed the signal has not waited a second.
C23_Witness ==
    \E t \in Threads, c \in Callers :
        /\ th[t].pc = "exit" /\ th[t].stop_event
        /\ call[c].pc = "s_join" /\ call[c].thread = t /\ call[c].timer = 0
        /\ th[t].elapsed > 0

\* The session of thread t is past its loop.
PastLoop(t) == th[t].pc \in {"exit", "del", "dead", "crashed"}

\* C24: the head of a tick reads the status before any detection work; a
\* session that reads a status other than 'ongoing' leaves its loop in that
\* tick, and a session past its loop writes no event and runs no tick.
C24_NoEventAfterNotOngoing ==
    [][/\ \A t \in Threads :
             /\ (th[t].pc = "top" /\ status[th[t].interview] # "ongoing"
                    /\ th'[t].pc # th[t].pc) => PastLoop(t)'
             /\ PastLoop(t) => PastLoop(t)'
       /\ \A i \in Ids :
             events'[i] # events[i] =>
                 \E t \in Threads :
                     /\ th[t].interview = i /\ th[t].pc = "tick"
                     /\ th'[t].pc = "wait"]_vars

\* A session that read 'completed' at the head of a tick, events already
\* written, is at its exit.
C24_Witness ==
    \E t \in Threads :
        /\ th[t].pc = "exit" /\ ~th[t].stop_event
        /\ status[th[t].interview] = "completed"
        /\ th[t].elapsed <= duration_seconds(t)
        /\ events[th[t].interview] > 0

\* C25: an error raised by a detection step of a tick is caught in that
\* tick: the session is alive and has the registry entry it had, it is in the
\* wait between ticks, and it leaves that wait for the head of the next tick
\* when the poll interval is over, or for its exit when it is signalled.
C25_TickErrorIsContained ==
    [][\A t \in Threads :
          /\ (th[t].pc = "tick" /\ th'[t].caught) =>
                /\ th'[t].pc = "wait" /\ th'[t].timer = 0
                /\ is_alive(t)'
                /\ active_detection_threads' = active_detection_threads
          /\ (th[t].pc = "wait" /\ th[t].caught /\ th'[t].pc # th[t].pc) =>
                \/ th'[t].pc = "top" /\ th[t].timer >= PollSeconds
                \/ th'[t].pc = "exit" /\ th[t].stop_event]_vars

\* A session that caught an error in a tick has come to the end of its wait
\* with its registry entry.
C25_Witness ==
    \E t \in Threads :
        /\ th[t].caught /\ th[t].pc = "wait" /\ th[t].timer >= PollSeconds
        /\ ~th[t].stop_event
        /\ active_detection_threads[th[t].interview] = t

\* A write of the tick just worked was refused.
SomeRefused(l) == \E k \in 1..Len(l.out) : ~l.out[k].written

\* The tick of l has handed an event of type e to _log_event.
Tried(l, e) == \E k \in 1..Len(l.out) : l.out[k].event_type = e

\* C26: a refused write in a tick ends neither the tick nor the session: the
\* steps after it run (the faces and the objects read in the tick have their
\* events tried), the tick ends in the wait, and the wait is followed by the
\* next tick.
C26_RefusedWriteIsSwallowed ==
    [][/\ (Worked /\ SomeRefused(loop')) =>
             /\ loop'.raised = "none" =>
                   /\ loop'.face_count > 1 => Tried(loop', "multiple_faces")
                   /\ \A k \in 1..Len(loop'.objects) :
                         Tried(loop', DetectedName(loop'.objects[k]))
             /\ loop'.pc = "wait"
       /\ (loop.pc = "wait" /\ loop' # loop) =>
             /\ loop'.pc = "detect"
             /\ loop'.current_time = loop.current_time + PollTenths]_vars

\* The first write of a tick was refused and a later one of the same tick
\* was made.
C26_Witness ==
    /\ loop.pc = "wait" /\ loop.raised = "none" /\ Len(loop.out) >= 2
    /\ ~loop.out[1].written /\ loop.out[Len(loop.out)].written
    /\ loop.face_count > 1

\* The debounced events, the timer of each and its threshold in tenths.
Debounced == {"focus_loss", "no_face"}

TimerOf(l, e) == IF e = "focus_loss" THEN l.focus_lost_start ELSE l.no_face_start

ThresholdOf(e) ==
    (IF e = "focus_loss" THEN focus_lost_threshold ELSE no_face_threshold) * Tenths

\* The write of an event of type e was refused in the tick of l.
Refused(l, e) ==
    \E k \in 1..Len(l.out) : l.out[k].event_type = e /\ ~l.out[k].written

\* C30: a debounced event whose write is refused resets its timer like one
\* that is written: the tick after it does not try the event again, and the
\* next try comes more than a full threshold after the refused one.
C30_RefusedWriteResetsTimer ==
    [][Worked =>
         \A e \in Debounced :
             /\ Refused(loop', e) => TimerOf(loop', e) = None
             /\ loop.refused[e] # None /\ Tried(loop', e) =>
                   loop.current_time - loop.refused[e] > ThresholdOf(e)
             /\ (loop.refused[e] # None
                    /\ loop.current_time - loop.refused[e] <= PollTenths) =>
                   ~Tried(loop', e)]_vars

\* The tick after a refused focus event has read not-focused again: it has
\* restarted the timer and tried nothing.
C30_Witness ==
    /\ loop.pc = "wait" /\ loop.raised = "none" /\ ~loop.focus_maintained
    /\ loop.refused["focus_loss"] # None
    /\ loop.current_time - loop.refused["focus_loss"] = PollTenths
    /\ loop.focus_lost_start = loop.current_time
    /\ ~Tried(loop, "focus_loss")

\* The step is one of the view end_interview run by handler c.
EndInterviewActs(c) == call[c].view = "end_interview" /\ call'[c] # call[c]

\* The sessions of interview j: its threads and its registry entry.
SessionsOf(j) == {t \in Threads : th[t].interview = j}

\* C27: a step of end_interview for one interview leaves alone the
\* detection session of every other interview that is still ongoing: its
\* stop event is not set and its registry entry is not removed.
C27_EndInterviewLeavesOthersAlone ==
    [][\A c \in Callers : EndInterviewActs(c) =>
          \A j \in Ids \ {call[c].arg} :
              (status[j] = "ongoing" /\ is_detection_active(j)) =>
                  /\ active_detection_threads'[j] = active_detection_threads[j]
                  /\ \A t \in SessionsOf(j) : th'[t].stop_event = th[t].stop_event]_vars

\* C28: between stop_detection and the exit of the session it stops no
\* access to the registry entry fails: the thread's del of line 120 finds
\* its key, and so do the read of line 184 and every del of stop_detection
\* (lines 196, 202, 209).
C28_RemovalIsRaceFree ==
    [][/\ \A t \in Threads : th[t].pc = "del" => th'[t].pc # "crashed"
       /\ \A c \in Callers : call[c].op \in {"stop", "start"} =>
                                   call'[c].pc # "KeyError"]_vars

\* The session t left its loop through the except clause of lines 54-56.
LeftOnError(t) == th[t].pc \in {"exit", "del"} /\ th[t].caught

Mine(t) == active_detection_threads[th[t].interview] = t

\* C29: a session whose re-read of the status raises (the row is gone)
\* leaves the loop in that iteration with no detection tick and no event,
\* goes on to the clean-up of lines 117-120, and there removes the registry
\* entry that maps its interview to it; an error of its print calls apart.
C29_RefreshErrorEndsSession ==
    [][\A t \in Threads : th'[t].pc # th[t].pc /\ th[t].interview \in Ids =>
          /\ (th[t].pc = "top" /\ ~StopSeen(t) /\ RefreshRaises(t)) =>
                 /\ th'[t].pc \in {"exit", "crashed"}
                 /\ events' = events
          /\ (LeftOnError(t) /\ Mine(t)) =>
                 /\ th'[t].pc \in {"del", "dead", "crashed"}
                 /\ th'[t].pc = "dead" => active_detection_threads'[th[t].interview] = None
          /\ (LeftOnError(t) /\ Mine(t) /\ th[t].pc = "del") => th'[t].pc = "dead"]_vars

C29_Witness ==
    \E t \in Threads : /\ th[t].pc = "del" /\ th[t].caught /\ Mine(t)
                        /\ status[th[t].interview] = "deleted"

====
